---- MODULE Spec2Model ----
(***************************************************************************)
(* dune-client: BaseDuneClient / BaseRouter (dune_client/api/base.py) and  *)
(* TableAPI (dune_client/api/table.py).                                    *)
(*                                                                         *)
(* One client object serves one synchronous call at a time.  A call is    *)
(* followed from its entry, through the request it sends, the response or  *)
(* network failure the environment produces, _handle_response, the table   *)
(* endpoint's unwrapping of the decoded value, to the value or exception   *)
(* the caller sees.                                                        *)
(***************************************************************************)
EXTENDS Integers, Sequences, FiniteSets, TLC

VARIABLES
    token,          \* self.token, set by __init__
    client_version, \* self.client_version, set by __init__
    pc,             \* position of the call in progress
    op,             \* the method the caller invoked
    args,           \* its arguments
    sent,           \* the HTTP requests issued by the call in progress, in order
    response,       \* the requests.Response the call received
    handled,        \* what _handle_response returned or raised
    outcome,        \* what the caller gets: a value or an exception
    data,           \* insert_table: the handle bound by `with open(...) as data`
    openFiles,      \* file handles open in the process
    nextfd,         \* handles opened so far (the next handle's number)
    ncalls          \* calls started so far

vars == <<token, client_version, pc, op, args, sent, response, handled,
          outcome, data, openFiles, nextfd, ncalls>>

----------------------------------------------------------------------------
(* Bounds and input sets *)

MaxCalls == 2

ApiKeys == {"key-A", "key-B"}
Versions == {"v1"}
Routes == {"/query/1/results"}
TableNames == {"tbl"}
Namespaces == {"ns"}
Statuses == {200, 204, 302, 399, 400, 404, 499, 500, 503, 599}

\* paths, as character sequences
P_csv   == <<"d", ".", "c", "s", "v">>
P_json  == <<"d", ".", "j", "s", "o", "n">>
P_jsonl == <<"d", ".", "j", "s", "o", "n", "l">>
P_txt   == <<"d", ".", "t", "x", "t">>
P_gzcsv == <<"a", ".", "c", "s", "v", ".", "g", "z">>
P_noext == <<"c", "s", "v">>
P_gone  == <<"x", ".", "c", "s", "v">>
Paths == {P_csv, P_json, P_jsonl, P_txt, P_gzcsv, P_noext, P_gone}
\* the files that exist and can be read
Readable == Paths \ {P_gone}
FileBytes(path) == <<"bytes-of", path>>

----------------------------------------------------------------------------
(* JSON values and response bodies *)

JObject(members) == [type |-> "object", members |-> members, scalar |-> ""]
JArray           == [type |-> "array",  members |-> {}, scalar |-> "[]"]
JScalar(t, s)    == [type |-> t, members |-> {}, scalar |-> s]
JBool(b)         == JScalar("bool", IF b THEN "true" ELSE "false")
NoValue          == [type |-> "none", members |-> {}, scalar |-> ""]

Bodies == {
    "{\"success\": true}",
    "{\"success\": false}",
    "{\"success\": true, \"table_name\": \"tbl\"}",
    "{\"success\": false, \"error\": \"quota\"}",
    "{\"success\": 1}",
    "{\"success\": null}",
    "{\"error\": \"bad request\"}",
    "{}",
    "[]",
    "null",
    "7",
    "\"success\"",
    "",
    "<html>Bad Gateway</html>",
    "{\"success\": tru" }

\* response.json(): the decoded value, or DecodeError for text that is not JSON
DecodeError == [type |-> "JSONDecodeError", members |-> {}, scalar |-> ""]
json(body) ==
    CASE body = "{\"success\": true}"  -> JObject({<<"success", "true">>})
      [] body = "{\"success\": false}" -> JObject({<<"success", "false">>})
      [] body = "{\"success\": true, \"table_name\": \"tbl\"}"
            -> JObject({<<"success", "true">>, <<"table_name", "\"tbl\"">>})
      [] body = "{\"success\": false, \"error\": \"quota\"}"
            -> JObject({<<"success", "false">>, <<"error", "\"quota\"">>})
      [] body = "{\"success\": 1}"     -> JObject({<<"success", "1">>})
      [] body = "{\"success\": null}"  -> JObject({<<"success", "null">>})
      [] body = "{\"error\": \"bad request\"}"
            -> JObject({<<"error", "\"bad request\"">>})
      [] body = "{}"                   -> JObject({})
      [] body = "[]"                   -> JArray
      [] body = "null"                 -> JScalar("null", "null")
      [] body = "7"                    -> JScalar("number", "7")
      [] body = "\"success\""          -> JScalar("string", "\"success\"")
      [] OTHER                         -> DecodeError

----------------------------------------------------------------------------
(* Results of calls *)

NoResult == [kind |-> "none", exc |-> "", value |-> NoValue, status |-> 0,
             cause |-> "", payload |-> NoValue, opname |-> ""]
Return(v) == [NoResult EXCEPT !.kind = "return", !.value = v]
ReturnRaw(status) == [NoResult EXCEPT !.kind = "return_raw", !.status = status]
Raise(exc, cause) == [NoResult EXCEPT !.kind = "raise", !.exc = exc, !.cause = cause]
RaiseHTTP(status) ==
    [NoResult EXCEPT !.kind = "raise", !.exc = "HTTPError", !.status = status]
RaiseDune(payload, opname, cause) ==
    [NoResult EXCEPT !.kind = "raise", !.exc = "DuneError", !.payload = payload,
                     !.opname = opname, !.cause = cause]

NoResponse == [present |-> FALSE, status |-> 0, body |-> ""]
NoArgs == [route |-> "", raw |-> FALSE, path |-> <<>>, is_private |-> FALSE]
NoHandle == -1

----------------------------------------------------------------------------
(* BaseDuneClient *)

BASE_URL == "https://api.dune.com"
DEFAULT_TIMEOUT == 10
AUTH_HEADER == "x-dune-api-key"

api_version(version) == "/api/" \o version

\* headers are sets of <<name, value>> pairs
default_headers_none(tok) == {}
default_headers(tok) == {<<AUTH_HEADER, tok>>}

route_url(version, route) == BASE_URL \o api_version(version) \o route

----------------------------------------------------------------------------
(* BaseRouter *)

NoParams == {}
NoBody == <<>>
Request(method, url, params, headers) ==
    [method |-> method, url |-> url, params |-> params, headers |-> headers,
     body |-> NoBody, timeout |-> DEFAULT_TIMEOUT]

\* Response.raise_for_status(): raises HTTPError for 4xx and 5xx
raises_for_status(status) == 400 <= status /\ status < 600

handle_response_no_status(resp) ==
    LET response_json == json(resp.body) IN
    IF response_json # DecodeError
    THEN Return(response_json)
    ELSE Raise("ValueError", "JSONDecodeError")
handle_response_status_first(resp) ==
    LET response_json == json(resp.body) IN
    IF raises_for_status(resp.status)
    THEN RaiseHTTP(resp.status)
    ELSE IF response_json # DecodeError
         THEN Return(response_json)
         ELSE Raise("ValueError", "JSONDecodeError")
handle_response_lenient(resp) ==
    LET response_json == json(resp.body) IN
    IF response_json # DecodeError
    THEN Return(response_json)
    ELSE IF raises_for_status(resp.status)
         THEN RaiseHTTP(resp.status)
         ELSE Return(JScalar("null", "null"))
\* _handle_response
handle_response(resp) ==
    LET response_json == json(resp.body) IN
    IF response_json # DecodeError
    THEN Return(response_json)
    ELSE IF raises_for_status(resp.status)
         THEN RaiseHTTP(resp.status)
         ELSE Raise("ValueError", "JSONDecodeError")

\* the parameters _post binds, besides self
post_parameters == {"route", "params"}
\* calling _post with keyword arguments kw: TypeError unless every keyword binds
call_post(kw) ==
    IF kw \subseteq post_parameters /\ "route" \in kw
    THEN NoResult
    ELSE Raise("TypeError", "unexpected keyword argument")

StartCall(name, a) ==
    /\ pc = "idle"
    /\ ncalls < MaxCalls
    /\ ncalls' = ncalls + 1
    /\ op' = name
    /\ args' = a
    /\ response' = NoResponse
    /\ handled' = NoResult
    /\ outcome' = NoResult

\* _get up to and including requests.get
Get(route, params, raw) ==
    /\ StartCall("get", [NoArgs EXCEPT !.route = route, !.raw = raw])
    /\ sent' = <<Request("GET", route_url(client_version, route), params,
                         default_headers(token))>>
    /\ pc' = "inflight"
    /\ UNCHANGED <<token, client_version, data, openFiles, nextfd>>

\* _post up to and including requests.post
Post(route, params) ==
    /\ StartCall("post", [NoArgs EXCEPT !.route = route])
    /\ sent' = <<Request("POST", route_url(client_version, route), params,
                         default_headers(token))>>
    /\ pc' = "inflight"
    /\ UNCHANGED <<token, client_version, data, openFiles, nextfd>>

\* _patch up to and including requests.request
Patch(route, params) ==
    /\ StartCall("patch", [NoArgs EXCEPT !.route = route])
    /\ sent' = <<Request("PATCH", route_url(client_version, route), params,
                         {<<AUTH_HEADER, token>>})>>
    /\ pc' = "inflight"
    /\ UNCHANGED <<token, client_version, data, openFiles, nextfd>>

----------------------------------------------------------------------------
(* The network: the environment answers the request in flight or fails it *)

\* where a finished or failed call goes: insert_table leaves its with block
Unwind ==
    IF op = "insert_table" THEN "with_exit" ELSE "done"

\* the server's response arrives
Respond(status, body) ==
    /\ pc = "inflight"
    /\ response' = [present |-> TRUE, status |-> status, body |-> body]
    /\ pc' = "responded"
    /\ UNCHANGED <<token, client_version, op, args, sent, handled, outcome,
                   data, openFiles, nextfd, ncalls>>

\* requests raises: no connection, or no answer within DEFAULT_TIMEOUT
NetworkFail(exc) ==
    /\ pc = "inflight"
    /\ outcome' = Raise(exc, "")
    /\ pc' = Unwind
    /\ UNCHANGED <<token, client_version, op, args, sent, response, handled,
                   data, openFiles, nextfd, ncalls>>

\* _get with raw=True returns the response object itself
GetRaw ==
    /\ pc = "responded"
    /\ op = "get" /\ args.raw
    /\ outcome' = ReturnRaw(response.status)
    /\ pc' = "done"
    /\ UNCHANGED <<token, client_version, op, args, sent, response, handled,
                   data, openFiles, nextfd, ncalls>>

\* return self._handle_response(response), in _get, _post and _patch
HandleResponse ==
    /\ pc = "responded"
    /\ ~(op = "get" /\ args.raw)
    /\ handled' = handle_response(response)
    /\ outcome' = handled'
    /\ pc' = IF handled'.kind = "raise" THEN Unwind
             ELSE IF op \in {"get", "post", "patch"} THEN "done"
             ELSE "handled"
    /\ UNCHANGED <<token, client_version, op, args, sent, response,
                   data, openFiles, nextfd, ncalls>>

----------------------------------------------------------------------------
(* TableAPI *)

HasKey(v, k) == \E m \in v.members : m[1] = k
Member(v, k) == (CHOOSE m \in v.members : m[1] = k)[2]

\* Python's bool() of a decoded scalar
bool(s) == s \notin {"false", "null", "0", "\"\""}

\* response_json[key]: the member, KeyError for an object without it, TypeError
\* for a value that is not an object (list, str: bad index type; None, number:
\* not subscriptable)
getitem_raises(v, k) ==
    IF v.type = "object"
    THEN IF HasKey(v, k) THEN "" ELSE "KeyError"
    ELSE "TypeError"

upload_csv_result_present(response_json) ==
    LET exc == getitem_raises(response_json, "success") IN
    IF exc = "" THEN Return(JBool(TRUE))
    ELSE IF exc = "KeyError"
         THEN RaiseDune(response_json, "UploadCsvResponse", "KeyError")
         ELSE Raise(exc, "")
\* upload_csv: try: return bool(response_json["success"]) except KeyError ...
upload_csv_result(response_json) ==
    LET exc == getitem_raises(response_json, "success") IN
    IF exc = "" THEN Return(JBool(bool(Member(response_json, "success"))))
    ELSE IF exc = "KeyError"
         THEN RaiseDune(response_json, "UploadCsvResponse", "KeyError")
         ELSE Raise(exc, "")

\* create_table, insert_table: try: return response_json except KeyError ...
passthrough_result(response_json) == Return(response_json)

UPLOAD_ROUTE == "/table/upload/csv"
create_route(namespace, table_name) ==
    "/table/" \o namespace \o "/" \o table_name \o "/create"
insert_route(namespace, table_name) ==
    "/table/" \o namespace \o "/" \o table_name \o "/insert"

\* upload_csv up to and including requests.post
UploadCsv(table_name, csv, description, is_private) ==
    /\ StartCall("upload_csv", [NoArgs EXCEPT !.route = UPLOAD_ROUTE,
                                              !.is_private = is_private])
    /\ sent' = <<Request("POST", route_url(client_version, UPLOAD_ROUTE),
                         {<<"table_name", table_name>>,
                          <<"description", description>>,
                          <<"data", csv>>,
                          <<"is_private", IF is_private THEN "true" ELSE "false">>},
                         default_headers(token))>>
    /\ pc' = "inflight"
    /\ UNCHANGED <<token, client_version, data, openFiles, nextfd>>

\* create_table up to and including requests.post
CreateTable(namespace, table_name, schema, description) ==
    /\ StartCall("create_table",
                 [NoArgs EXCEPT !.route = create_route(namespace, table_name)])
    /\ sent' = <<Request("POST",
                         route_url(client_version, create_route(namespace, table_name)),
                         {<<"schema", schema>>, <<"description", description>>},
                         default_headers(token))>>
    /\ pc' = "inflight"
    /\ UNCHANGED <<token, client_version, data, openFiles, nextfd>>

\* the table endpoints after _post has returned response_json
Unwrap ==
    /\ pc = "handled"
    /\ outcome' = IF op = "upload_csv" THEN upload_csv_result(handled.value)
                  ELSE passthrough_result(handled.value)
    /\ pc' = Unwind
    /\ UNCHANGED <<token, client_version, op, args, sent, response, handled,
                   data, openFiles, nextfd, ncalls>>

\* path.split(".")[-1]: what follows the last ".", the whole path without one
file_extension(path) ==
    LET dots == {i \in 1..Len(path) : path[i] = "."} IN
    IF dots = {} THEN path
    ELSE LET last == CHOOSE i \in dots : \A j \in dots : j <= i
         IN  SubSeq(path, last + 1, Len(path))

\* the Content-Type insert_table computes; "None" is Python's None
content_type(ext) ==
    IF ext = <<"c", "s", "v">> THEN "text/csv"
    ELSE IF ext \in {<<"j", "s", "o", "n">>, <<"j", "s", "o", "n", "l">>}
         THEN "application/x-ndjson"
         ELSE "None"

\* the keyword arguments insert_table passes to _post
insert_table_keywords == {"route", "headers", "data"}

\* leaving `with open(path, "rb") as data`: __exit__ closes the handle
close_on_exit_unless_raised(files, fd, result) ==
    IF result.kind = "raise" THEN files ELSE files \ {fd}
close_on_exit(files, fd, result) == files \ {fd}

\* insert_table: file_extension = ...; with open(path, "rb") as data
InsertTable(namespace, table_name, path) ==
    /\ StartCall("insert_table",
                 [NoArgs EXCEPT !.route = insert_route(namespace, table_name),
                                !.path = path])
    /\ sent' = <<>>
    /\ IF path \in Readable
       THEN /\ data' = nextfd
            /\ openFiles' = openFiles \cup {nextfd}
            /\ nextfd' = nextfd + 1
            /\ pc' = "with_body"
            /\ UNCHANGED <<token, client_version>>
       ELSE /\ pc' = "done"
            /\ UNCHANGED <<token, client_version, data, openFiles, nextfd>>
    /\ outcome' = IF path \in Readable THEN NoResult
                  ELSE Raise("FileNotFoundError", "")

\* insert_table: response_json = self._post(route=..., headers=..., data=data)
InsertTablePost ==
    /\ pc = "with_body"
    /\ LET bound == call_post(insert_table_keywords) IN
       IF bound.kind = "raise"
       THEN /\ outcome' = bound
            /\ pc' = "with_exit"
            /\ sent' = sent
       ELSE /\ outcome' = outcome
            /\ pc' = "inflight"
            /\ sent' = Append(sent,
                   Request("POST", route_url(client_version, args.route),
                           NoParams, default_headers(token)))
    /\ UNCHANGED <<token, client_version, op, args, response, handled,
                   data, openFiles, nextfd, ncalls>>

\* insert_table: the with block is left, by return or by exception
InsertTableExit ==
    /\ pc = "with_exit"
    /\ openFiles' = close_on_exit(openFiles, data, outcome)
    /\ pc' = "done"
    /\ UNCHANGED <<token, client_version, op, args, sent, response, handled,
                   outcome, data, nextfd, ncalls>>

\* the caller has the result; the client is ready for the next call
Finish ==
    /\ pc = "done"
    /\ pc' = "idle"
    /\ op' = "none"
    /\ args' = NoArgs
    /\ sent' = <<>>
    /\ response' = NoResponse
    /\ handled' = NoResult
    /\ outcome' = NoResult
    /\ data' = NoHandle
    /\ UNCHANGED <<token, client_version, openFiles, nextfd, ncalls>>

----------------------------------------------------------------------------
(* The state machine *)

\* BaseDuneClient.__init__
Init ==
    /\ token \in ApiKeys
    /\ client_version \in Versions
    /\ pc = "idle"
    /\ op = "none"
    /\ args = NoArgs
    /\ sent = <<>>
    /\ response = NoResponse
    /\ handled = NoResult
    /\ outcome = NoResult
    /\ data = NoHandle
    /\ openFiles = {}
    /\ nextfd = 3
    /\ ncalls = 0

QueryParams == {NoParams, {<<"limit", "10">>}}
JsonParams == {NoParams, {<<"name", "q">>}}
Schemas == {"[{name: a, type: int}]"}
Descriptions == {"", "about"}
CsvData == {"a,b\n1,2"}
NetworkErrors == {"ConnectionError", "Timeout"}

Next ==
    \/ \E r \in Routes, p \in QueryParams, raw \in BOOLEAN : Get(r, p, raw)
    \/ \E r \in Routes, p \in JsonParams : Post(r, p)
    \/ \E r \in Routes, p \in JsonParams : Patch(r, p)
    \/ \E t \in TableNames, c \in CsvData, d \in Descriptions, b \in BOOLEAN :
          UploadCsv(t, c, d, b)
    \/ \E n \in Namespaces, t \in TableNames, s \in Schemas, d \in Descriptions :
          CreateTable(n, t, s, d)
    \/ \E n \in Namespaces, t \in TableNames, p \in Paths : InsertTable(n, t, p)
    \/ InsertTablePost
    \/ InsertTableExit
    \/ \E st \in Statuses, b \in Bodies : Respond(st, b)
    \/ \E e \in NetworkErrors : NetworkFail(e)
    \/ GetRaw
    \/ HandleResponse
    \/ Unwrap
    \/ Finish

Spec == Init /\ [][Next]_vars

----------------------------------------------------------------------------
(* Properties *)

BaseOps == {"get", "post", "patch"}
TableOps == {"upload_csv", "create_table", "insert_table"}
ThroughHandler == response.present /\ handled.kind # "none"
Undecodable == json(response.body) = DecodeError
ErrorStatus == response.status >= 400

\* C1: a call routed through _handle_response whose response body fails JSON
\* decoding and whose status is an error status (4xx, 5xx) fails with the HTTP
\* error of that status: the handler raises it, and the caller gets it; it is
\* never a decode error and never a returned value.
C1_UndecodableErrorStatusRaisesHTTPError ==
    (ThroughHandler /\ Undecodable /\ ErrorStatus)
        => /\ handled = RaiseHTTP(response.status)
           /\ outcome = RaiseHTTP(response.status)
           /\ pc \in {"done", "with_exit"}
C1_Witness ==
    /\ pc = "done" /\ op = "post"
    /\ response.present /\ response.status = 500
    /\ response.body = "<html>Bad Gateway</html>"
    /\ outcome.kind = "raise" /\ outcome.exc = "HTTPError" /\ outcome.status = 500

\* C2: insert_table on a readable file issues one POST to
\* /table/{namespace}/{table_name}/insert whose body is the file's bytes, and
\* returns the decoded JSON response of that POST.
C2_InsertTablePostsFileBytes ==
    (pc = "done" /\ op = "insert_table" /\ args.path \in Readable)
        => /\ Len(sent) = 1
           /\ sent[1].method = "POST"
           /\ sent[1].url = route_url(client_version, args.route)
           /\ sent[1].body = FileBytes(args.path)
           /\ (response.present /\ ~Undecodable
                  => outcome = Return(json(response.body)))

\* C3: the request insert_table issues carries the Content-Type chosen from the
\* extension of path: text/csv for csv, application/x-ndjson for json and
\* jsonl, and no Content-Type for any other extension.
C3_InsertTableContentType ==
    (pc = "done" /\ op = "insert_table" /\ args.path \in Readable)
        => \E i \in 1..Len(sent) :
              LET ct == content_type(file_extension(args.path))
                  given == {h \in sent[i].headers : h[1] = "Content-Type"}
              IN  IF ct = "None" THEN given = {}
                  ELSE given = {<<"Content-Type", ct>>}

\* C4: no file handle opened by insert_table is open once the call has exited,
\* whichever way it exited; while the call runs, the only open handle is its own.
C4_NoOpenHandleAfterCall ==
    /\ pc \in {"idle", "done"} => openFiles = {}
    /\ openFiles \subseteq {data}
C4_Witness ==
    /\ pc = "done" /\ op = "insert_table"
    /\ data # NoHandle /\ data < nextfd
    /\ outcome.kind = "raise"
    /\ data \notin openFiles

\* C5: when the decoded response of upload_csv's POST is an object whose success
\* member is a boolean, upload_csv returns that boolean, whatever the HTTP
\* status and the other members.
C5_UploadCsvReturnsSuccess ==
    (/\ pc = "done" /\ op = "upload_csv"
     /\ handled.kind = "return"
     /\ handled.value.type = "object"
     /\ \E m \in handled.value.members :
            m[1] = "success" /\ m[2] \in {"true", "false"})
        => \E m \in handled.value.members :
              /\ m[1] = "success"
              /\ outcome = Return(JBool(m[2] = "true"))
C5_Witness ==
    /\ pc = "done" /\ op = "upload_csv"
    /\ response.status = 500
    /\ response.body = "{\"success\": false, \"error\": \"quota\"}"
    /\ outcome = Return(JBool(FALSE))

\* C6: whenever upload_csv's POST yields a decoded JSON response without the
\* success field, of whatever shape, upload_csv fails with a DuneError carrying
\* the response, the name UploadCsvResponse and the KeyError.
C6_MissingSuccessRaisesDuneError ==
    (/\ pc = "done" /\ op = "upload_csv"
     /\ handled.kind = "return"
     /\ ~(handled.value.type = "object"
          /\ \E m \in handled.value.members : m[1] = "success"))
        => outcome = RaiseDune(handled.value, "UploadCsvResponse", "KeyError")

\* C7: every request the client issues carries x-dune-api-key exactly once,
\* with the API key given at construction, and default_headers() is exactly
\* that one header.
C7_AuthHeaderOnEveryRequest ==
    /\ \A i \in 1..Len(sent) :
          /\ Cardinality({h \in sent[i].headers : h[1] = "x-dune-api-key"}) = 1
          /\ <<"x-dune-api-key", token>> \in sent[i].headers
    /\ default_headers(token) = {<<"x-dune-api-key", token>>}
C7_Witness ==
    /\ pc = "inflight" /\ op = "upload_csv" /\ ncalls = 2
    /\ Len(sent) = 1
    /\ sent[1].headers = {<<"x-dune-api-key", token>>}

\* C8: a response whose body decodes as JSON is returned as the decoded value
\* whatever its status: the handler raises nothing, and _get, _post, _patch
\* (and create_table, which passes the value on) return it.
C8_DecodableReturnedWhateverStatus ==
    (ThroughHandler /\ ~Undecodable)
        => /\ handled = Return(json(response.body))
           /\ (pc = "done" /\ op \in BaseOps \cup {"create_table"}
                  => outcome = Return(json(response.body)))
C8_Witness ==
    /\ pc = "done" /\ op = "get"
    /\ response.status = 404
    /\ response.body = "{\"error\": \"bad request\"}"
    /\ outcome = Return(JObject({<<"error", "\"bad request\"">>}))

\* C9: each invocation of upload_csv, create_table and insert_table (on a file
\* that can be opened) has issued exactly one HTTP POST when it exits.
C9_ExactlyOnePost ==
    (pc = "done" /\ op \in TableOps
       /\ (op = "insert_table" => args.path \in Readable))
        => Len(SelectSeq(sent, LAMBDA r : r.method = "POST")) = 1

====
